---- MODULE Spec2Model ----
(***************************************************************************)
(* stack-clean (src/main.go): read a goroutine dump from stdin, parse each *)
(* block of non-blank lines into a parsedStack, sort the stacks by key,    *)
(* group equal keys and print one summary per group.                       *)
(*                                                                         *)
(* A Go string is modelled as a sequence of one-character strings, so the  *)
(* regular expressions, strconv.ParseUint and the key builder work on the  *)
(* characters as the code does.  A uint64 / int / uintptr is modelled as   *)
(* its 64-bit pattern, four 16-bit limbs, least significant first (TLC's   *)
(* own integers are 32 bits wide); int is assumed 64 bits wide (amd64).    *)
(***************************************************************************)
EXTENDS Integers, Sequences, FiniteSets, TLC

VARIABLES
    pc,           \* position of main: "scan", "sort", "group", "errors", "done", "panic"
    filterCount,  \* main.go:21  *filterCount
    printErrors,  \* main.go:20  *printErrors
    lines,        \* main.go:24  var lines []string
    stacks,       \* main.go:25  var stacks []parsedStack
    errors,       \* main.go:26  var errors int
    feed,         \* stdin: the raw lines of the chunk the scanner is inside
    chunks,       \* stdin: number of chunks the scanner has started
    calls,        \* the calls group has made to its callback: <<[n, ps], ...>>
    out,          \* stdout: the report entries, in print order
    res,          \* what parseStack returned, when it is run on its own
    blocks,       \* history: number of maximal runs of non-blank lines read
    prevBlank,    \* history: the previous line read was blank (or none was read)
    shadow,       \* history: stacks of the run on the input without removed blocks
    removed       \* history: number of failing blocks removed from shadow's input

vars == <<pc, filterCount, printErrors, lines, stacks, errors, feed, chunks,
          calls, out, res, blocks, prevBlank, shadow, removed>>

(***************************************************************************)
(* Bounds of the model.                                                    *)
(***************************************************************************)
MaxChunks == 5
MaxBlockLen == 5

(***************************************************************************)
(* Strings.                                                                *)
(***************************************************************************)
Range(s) == {s[i] : i \in DOMAIN s}
AllIn(s, cls) == \A i \in DOMAIN s : s[i] \in cls
IsPrefix(p, s) == Len(p) <= Len(s) /\ SubSeq(s, 1, Len(p)) = p
IsSuffix(p, s) == Len(p) <= Len(s) /\ SubSeq(s, Len(s) - Len(p) + 1, Len(s)) = p
SetMax(S) == CHOOSE x \in S : \A y \in S : y <= x
SetMin(S) == CHOOSE x \in S : \A y \in S : x <= y

DigitChars == <<"0","1","2","3","4","5","6","7","8","9">>
LetterChars == <<"a","b","c","d","e","f","g","h","i","j","k","l","m",
                 "n","o","p","q","r","s","t","u","v","w","x","y","z">>
Digit == Range(DigitChars)                          \* \d
HexDigit == Digit \cup {"a","b","c","d","e","f"}    \* [0-9a-f]
Letter == Range(LetterChars)
Space == {" ", "\t"}

\* The characters of the model in ascending byte order; Go compares strings
\* byte by byte.
ByteOrder == <<"\n", "\t", " ", "(", ")", "+", ",", ".", "/">> \o DigitChars
             \o <<":", "[", "]">> \o LetterChars
Byte(c) == CHOOSE i \in DOMAIN ByteOrder : ByteOrder[i] = c

RECURSIVE StrLess(_, _)
StrLess(a, b) ==
    IF b = <<>> THEN FALSE
    ELSE IF a = <<>> THEN TRUE
    ELSE IF Head(a) # Head(b) THEN Byte(Head(a)) < Byte(Head(b))
    ELSE StrLess(Tail(a), Tail(b))

RECURSIVE TrimLeft(_)
TrimLeft(s) == IF s # <<>> /\ Head(s) \in Space THEN TrimLeft(Tail(s)) ELSE s
RECURSIVE TrimRight(_)
TrimRight(s) ==
    IF s # <<>> /\ s[Len(s)] \in Space THEN TrimRight(SubSeq(s, 1, Len(s) - 1)) ELSE s
TrimSpace(s) == TrimRight(TrimLeft(s))

(***************************************************************************)
(* 64-bit integers.                                                        *)
(***************************************************************************)
Radix == 2^16
U64(k) == <<k % Radix, k \div Radix, 0, 0>>      \* a small natural as uint64
Zero == U64(0)
MaxUint64 == <<Radix - 1, Radix - 1, Radix - 1, Radix - 1>>
\* n*base + d on 64 bits, with the overflow ParseUint tests for
MulAdd(n, base, d) ==
    LET t0 == n[1] * base + d
        t1 == n[2] * base + (t0 \div Radix)
        t2 == n[3] * base + (t1 \div Radix)
        t3 == n[4] * base + (t2 \div Radix)
    IN [n |-> <<t0 % Radix, t1 % Radix, t2 % Radix, t3 % Radix>>,
        over |-> t3 \div Radix > 0]
\* int(x) and uintptr(x) of a uint64 x keep the 64-bit pattern
IntOf(u) == u
UintptrOf(u) == u
IsNegative(i) == i[4] >= Radix \div 2
\* signed comparison of two ints: compare with the sign bit flipped
Biased(i) == <<(i[4] + Radix \div 2) % Radix, i[3], i[2], i[1]>>
RECURSIVE SeqLess(_, _)
SeqLess(a, b) ==
    IF a = <<>> THEN FALSE
    ELSE IF a[1] # b[1] THEN a[1] < b[1]
    ELSE SeqLess(Tail(a), Tail(b))
IntLess(a, b) == SeqLess(Biased(a), Biased(b))

(***************************************************************************)
(* strconv.ParseUint(s, 0, 64), as parser.digits calls it: base 0 takes    *)
(* the base from the prefix of s.  (The '_' that base 0 allows between     *)
(* digits is left out: no string the matchers capture holds one.)          *)
(***************************************************************************)
CharVal(c) ==
    IF c \in Digit THEN (CHOOSE i \in DOMAIN DigitChars : DigitChars[i] = c) - 1
    ELSE IF c \in Letter THEN (CHOOSE i \in DOMAIN LetterChars : LetterChars[i] = c) + 9
    ELSE 99
RECURSIVE Accumulate(_, _, _)
Accumulate(s, base, n) ==
    IF s = <<>> THEN [n |-> n, err |-> "nil"]
    ELSE IF CharVal(Head(s)) >= base THEN [n |-> Zero, err |-> "syntax"]
    ELSE LET m == MulAdd(n, base, CharVal(Head(s)))
         IN IF m.over THEN [n |-> MaxUint64, err |-> "range"]
            ELSE Accumulate(Tail(s), base, m.n)
ParseUintBase(s) ==
    IF s[1] # "0" THEN 10
    ELSE IF Len(s) >= 3 /\ s[2] = "b" THEN 2
    ELSE IF Len(s) >= 3 /\ s[2] = "o" THEN 8
    ELSE IF Len(s) >= 3 /\ s[2] = "x" THEN 16
    ELSE 8
ParseUint(s) ==
    IF s = <<>> THEN [n |-> Zero, err |-> "syntax"]
    ELSE LET base == ParseUintBase(s)
             rest == IF s[1] # "0" THEN s
                     ELSE IF Len(s) >= 3 /\ s[2] \in {"b", "o", "x"} THEN SubSeq(s, 3, Len(s))
                     ELSE Tail(s)
         IN Accumulate(rest, base, Zero)

(***************************************************************************)
(* The four matchers (main.go:144-149).  Each returns what                 *)
(* FindStringSubmatch returns: Nil, or the whole match followed by the     *)
(* capture groups ("" for a group that took no part).                      *)
(***************************************************************************)
Nil == <<>>
Dot(s) == "\n" \notin Range(s)          \* a run of '.'
GOROUTINE == <<"g","o","r","o","u","t","i","n","e"," ">>
MINUTES == <<" ","m","i","n","u","t","e","s">>
CREATEDBY == <<"c","r","e","a","t","e","d"," ","b","y"," ">>
INGOROUTINE == <<" ","i","n"," ","g","o","r","o","u","t","i","n","e"," ">>
MAINMAIN == <<"m","a","i","n",".","m","a","i","n","(",")">>

\* ^goroutine (\d+) \[([^,]+)(, (\d+) minutes)?\]:$
\* The id is the digit run after "goroutine ", ending at a, which " [" must
\* follow; t is the text after " [".  The status holds no comma, so a t with
\* a comma can only match with the optional group (the status is the text
\* before the first comma, at c) and a t without one only without the group.
Commas(t) == {c \in DOMAIN t : t[c] = ","}
goroutineIdEnds(s) ==
    {a \in 11..(Len(s) - 2) : /\ IsPrefix(GOROUTINE, s)
                              /\ AllIn(SubSeq(s, 11, a), Digit)
                              /\ s[a + 1] = " " /\ s[a + 2] = "["}
goroutineMinutes(s, id, t, c) ==
    IF /\ c >= 2 /\ Len(t) >= c + 12
       /\ t[c + 1] = " "
       /\ AllIn(SubSeq(t, c + 2, Len(t) - 10), Digit)
       /\ SubSeq(t, Len(t) - 9, Len(t)) = MINUTES \o <<"]", ":">>
    THEN <<s, id, SubSeq(t, 1, c - 1), SubSeq(t, c, Len(t) - 2),
           SubSeq(t, c + 2, Len(t) - 10)>>
    ELSE Nil
goroutineStatus(s, id, t) ==
    IF Commas(t) = {}
    THEN IF Len(t) >= 3 /\ IsSuffix(<<"]", ":">>, t)
         THEN <<s, id, SubSeq(t, 1, Len(t) - 2), <<>>, <<>>>>
         ELSE Nil
    ELSE goroutineMinutes(s, id, t, SetMin(Commas(t)))
goroutineId(s, a) == goroutineStatus(s, SubSeq(s, 11, a), SubSeq(s, a + 3, Len(s)))
goroutineMatcher(s) ==
    IF goroutineIdEnds(s) = {} THEN Nil ELSE goroutineId(s, SetMax(goroutineIdEnds(s)))

\* ^created by (.+) in goroutine (\d+)$
\* (.+) is greedy: it ends before the last " in goroutine ", at q, that only
\* digits follow.
createdSplits(s) ==
    {q \in 13..(Len(s) - 14) : /\ IsPrefix(CREATEDBY, s)
                               /\ SubSeq(s, q, q + 13) = INGOROUTINE
                               /\ AllIn(SubSeq(s, q + 14, Len(s)), Digit)
                               /\ Dot(SubSeq(s, 12, q - 1))}
createdFields(s, q) == <<s, SubSeq(s, 12, q - 1), SubSeq(s, q + 14, Len(s))>>
createdMatcher(s) ==
    IF createdSplits(s) = {} THEN Nil ELSE createdFields(s, SetMax(createdSplits(s)))

\* ^(.+):(\d+)( \+(0x[0-9a-f]+))?$
\* (.+) is greedy: it ends before the last ':', at c, after which the rest is
\* digits, up to e, optionally followed by " +0x" and hex digits.
locationTail(s, e) ==
    \/ e = Len(s)
    \/ /\ Len(s) >= e + 5
       /\ SubSeq(s, e + 1, e + 4) = <<" ", "+", "0", "x">>
       /\ AllIn(SubSeq(s, e + 5, Len(s)), HexDigit)
locationEnds(s, c) ==
    {e \in (c + 1)..Len(s) : AllIn(SubSeq(s, c + 1, e), Digit) /\ locationTail(s, e)}
locationColons(s) ==
    {c \in 2..(Len(s) - 1) : s[c] = ":" /\ Dot(SubSeq(s, 1, c - 1)) /\ locationEnds(s, c) # {}}
locationFields(s, c, e) ==
    <<s, SubSeq(s, 1, c - 1), SubSeq(s, c + 1, e), SubSeq(s, e + 1, Len(s)),
      SubSeq(s, e + 3, Len(s))>>
locationLine(s, c) == locationFields(s, c, SetMax(locationEnds(s, c)))
locationMatcher(s) ==
    IF locationColons(s) = {} THEN Nil ELSE locationLine(s, SetMax(locationColons(s)))

\* ^(.+)\((.*)\)$
\* (.+) is greedy: it ends before the last '(', at p.
functionParens(s) == {p \in 2..(Len(s) - 1) : s[p] = "(" /\ s[Len(s)] = ")" /\ Dot(s)}
functionFields(s, p) == <<s, SubSeq(s, 1, p - 1), SubSeq(s, p + 1, Len(s) - 1)>>
functionMatcher(s) ==
    IF functionParens(s) = {} THEN Nil ELSE functionFields(s, SetMax(functionParens(s)))

FindStringSubmatch(re, s) ==
    CASE re = "goroutineMatcher" -> goroutineMatcher(s)
      [] re = "createdMatcher" -> createdMatcher(s)
      [] re = "locationMatcher" -> locationMatcher(s)
      [] re = "functionMatcher" -> functionMatcher(s)
NumSubexp(re) ==
    CASE re = "goroutineMatcher" -> 4
      [] re = "createdMatcher" -> 2
      [] re = "locationMatcher" -> 4
      [] re = "functionMatcher" -> 2

(***************************************************************************)
(* type parser (main.go:202-226): the first error latches.  err is p.err   *)
(* before the call; the result carries p.err after it.                     *)
(***************************************************************************)
EmptyMatches(re) == [i \in 1..(NumSubexp(re) + 1) |-> <<>>]

\* func (p *parser) digits(s string) (n uint64)
digits(err, s) ==
    IF err # "nil" THEN [n |-> Zero, err |-> err]
    ELSE IF s = <<>> THEN [n |-> Zero, err |-> err]
    ELSE ParseUint(s)

\* func (p *parser) regexp(s string, re *regexp.Regexp) (matches []string)
\* regexp returning the nil slice of a failed match
regexpMatchedNil(matches, re) ==
    IF matches = Nil
    THEN [matches |-> Nil, err |-> "no match"]
    ELSE [matches |-> matches, err |-> "nil"]
regexpMatched(matches, re) ==
    IF matches = Nil
    THEN [matches |-> EmptyMatches(re), err |-> "no match"]
    ELSE [matches |-> matches, err |-> "nil"]
regexp(err, s, re) ==
    IF err # "nil" THEN [matches |-> EmptyMatches(re), err |-> err]
    ELSE regexpMatched(FindStringSubmatch(re, s), re)

(***************************************************************************)
(* parseStack (main.go:151-200).  Indexing is Go's: x[i] is the (i+1)-th   *)
(* element, and an index outside 0..len-1 panics.  A step takes the        *)
(* [ps, err, panic] before it and returns the one after it; r is the       *)
(* result of a regexp call, g, w, l and o those of digits calls.           *)
(***************************************************************************)
InRange(x, i) == 0 <= i /\ i < Len(x)
At(x, i) == IF InRange(x, i) THEN x[i + 1] ELSE <<>>

ZeroFrame == [fn |-> <<>>, args |-> <<>>, path |-> <<>>, line |-> Zero, offset |-> Zero]
ZeroStack == [goroutine |-> Zero, status |-> <<>>, waiting |-> Zero,
              frames |-> <<>>, created |-> ZeroFrame, key |-> <<>>]

\* main.go:158-161
headerFields(ls, st, r, g, w) ==
    [ps |-> [st.ps EXCEPT !.goroutine = IntOf(g.n),
                          !.status = At(r.matches, 2),
                          !.waiting = IntOf(w.n)],
     err |-> w.err,
     panic |-> st.panic \/ ~InRange(ls, 0) \/ ~InRange(r.matches, 4)]
headerWaiting(ls, st, r, g) == headerFields(ls, st, r, g, digits(g.err, At(r.matches, 4)))
headerGoroutine(ls, st, r) == headerWaiting(ls, st, r, digits(r.err, At(r.matches, 1)))
parseHeader(ls, st) == headerGoroutine(ls, st, regexp(st.err, At(ls, 0), "goroutineMatcher"))

\* main.go:163-168
createdByFields(ls, st, r) ==
    [ps |-> [st.ps EXCEPT !.created.fn = At(r.matches, 1)],
     err |-> r.err,
     panic |-> st.panic \/ ~InRange(ls, Len(ls) - 2) \/ ~InRange(r.matches, 1)]
parseCreatedBy(ls, st) ==
    IF At(ls, Len(ls) - 2) = MAINMAIN
    THEN [st EXCEPT !.ps.created.fn = <<"-">>, !.panic = @ \/ ~InRange(ls, Len(ls) - 2)]
    ELSE createdByFields(ls, st, regexp(st.err, At(ls, Len(ls) - 2), "createdMatcher"))

\* main.go:170-173 and 182-185: the location line ls[i] into the frame f
locationFrame(ls, i, f, r, l, o) ==
    [f |-> [f EXCEPT !.path = At(r.matches, 1),
                     !.line = IntOf(l.n),
                     !.offset = UintptrOf(o.n)],
     err |-> o.err,
     panic |-> ~InRange(ls, i) \/ ~InRange(r.matches, 4)]
locationOffset(ls, i, f, r, l) ==
    locationFrame(ls, i, f, r, l, digits(l.err, At(r.matches, 4)))
locationLineNo(ls, i, f, r) == locationOffset(ls, i, f, r, digits(r.err, At(r.matches, 2)))
parseLocation(ls, i, err, f) ==
    locationLineNo(ls, i, f, regexp(err, At(ls, i), "locationMatcher"))

\* main.go:170-173
createdAtFields(st, l) ==
    [ps |-> [st.ps EXCEPT !.created = l.f], err |-> l.err, panic |-> st.panic \/ l.panic]
parseCreatedAt(ls, st) ==
    createdAtFields(st, parseLocation(ls, Len(ls) - 1, st.err, st.ps.created))

\* main.go:175-188: for i := 1; i < len(lines)-2; i += 2
frameAppended(ls, i, st, r, l) ==
    [ps |-> [st.ps EXCEPT !.frames = Append(@, l.f)],
     err |-> l.err,
     panic |-> st.panic \/ ~InRange(ls, i) \/ ~InRange(r.matches, 2) \/ l.panic]
frameLocation(ls, i, st, r) ==
    frameAppended(ls, i, st, r,
        parseLocation(ls, i + 1, r.err,
            [ZeroFrame EXCEPT !.fn = At(r.matches, 1), !.args = At(r.matches, 2)]))
parseFrame(ls, i, st) == frameLocation(ls, i, st, regexp(st.err, At(ls, i), "functionMatcher"))
\* the loop stopping before an interior line that has no partner
RECURSIVE parseFramesDropsUnpaired(_, _, _)
parseFramesDropsUnpaired(ls, i, st) ==
    IF ~(i + 1 < Len(ls) - 2) THEN st
    ELSE parseFramesDropsUnpaired(ls, i + 2, parseFrame(ls, i, st))

RECURSIVE parseFrames(_, _, _)
parseFrames(ls, i, st) ==
    IF ~(i < Len(ls) - 2) THEN st
    ELSE parseFrames(ls, i + 2, parseFrame(ls, i, st))

\* buildKey without the '\n' after the status and after each function name
RECURSIVE writeFramesNoSeparator(_, _)
writeFramesNoSeparator(b, frames) ==
    IF frames = <<>> THEN b
    ELSE writeFramesNoSeparator(b \o Head(frames).fn, Tail(frames))
buildKeyNoSeparator(ps) == writeFramesNoSeparator(ps.status, ps.frames)

\* main.go:190-197
RECURSIVE writeFrames(_, _)
writeFrames(b, frames) ==
    IF frames = <<>> THEN b
    ELSE writeFrames(b \o Head(frames).fn \o <<"\n">>, Tail(frames))
buildKey(ps) == writeFrames(ps.status \o <<"\n">>, ps.frames)
withKey(st) == [st EXCEPT !.ps.key = buildKey(st.ps)]

parseStack(ls) ==
    IF Len(ls) < 3
    THEN [ps |-> ZeroStack, err |-> "not enough lines", panic |-> FALSE]
    ELSE withKey(parseFrames(ls, 1,
             parseCreatedAt(ls,
                 parseCreatedBy(ls,
                     parseHeader(ls, [ps |-> ZeroStack, err |-> "nil", panic |-> FALSE])))))

(***************************************************************************)
(* minMax, sortedStatuses, group (main.go:69-123).                         *)
(***************************************************************************)
min(a, b) == IF IntLess(a, b) THEN a ELSE b
maxIsMin(a, b) == IF IntLess(a, b) THEN a ELSE b      \* max with min's test
max(a, b) == IF IntLess(b, a) THEN a ELSE b

RECURSIVE minMaxLoop(_, _, _)
minMaxLoop(rest, minWait, maxWait) ==
    IF rest = <<>> THEN [minWait |-> minWait, maxWait |-> maxWait]
    ELSE minMaxLoop(Tail(rest), min(minWait, Head(rest).waiting),
                    max(maxWait, Head(rest).waiting))
\* called with a non-empty ps only (ps[0] panics otherwise)
minMax(ps) == minMaxLoop(Tail(ps), ps[1].waiting, ps[1].waiting)

\* sort.Strings of a set of distinct strings
RECURSIVE SortStrings(_)
SortStrings(S) ==
    IF S = {} THEN <<>>
    ELSE LET m == CHOOSE x \in S : \A y \in S : y = x \/ StrLess(x, y)
         IN <<m>> \o SortStrings(S \ {m})
sortedStatuses(ps) == SortStrings({ps[i].status : i \in DOMAIN ps})

\* group: the calls cb(count, ps[prev:i]) it makes, in order.  i and prev are
\* Go indices into ps.
RECURSIVE groupLoop(_, _, _, _, _)
groupLoop(ps, i, prev, count, cbs) ==
    IF ~(i < Len(ps))
    THEN Append(cbs, [n |-> count, ps |-> SubSeq(ps, prev + 1, Len(ps))])
    ELSE IF ps[i + 1].key = ps[prev + 1].key
         THEN groupLoop(ps, i + 1, prev, count + 1, cbs)
         ELSE groupLoop(ps, i + 1, i, 1,
                        Append(cbs, [n |-> count, ps |-> SubSeq(ps, prev + 1, i)]))
group(ps) == IF Len(ps) = 0 THEN <<>> ELSE groupLoop(ps, 1, 0, 1, <<>>)

\* main without the sort
SortSliceSkipped(s) == {s}

\* sort.Slice(stacks, key <): not stable, so any ordering of the stacks that
\* ascends by key can come out.
Remove(s, i) == SubSeq(s, 1, i - 1) \o SubSeq(s, i + 1, Len(s))
RECURSIVE SortSlice(_)
SortSlice(s) ==
    IF s = <<>> THEN {<<>>}
    ELSE LET firsts == {i \in DOMAIN s : \A j \in DOMAIN s : ~StrLess(s[j].key, s[i].key)}
         IN UNION {{<<s[i]>> \o r : r \in SortSlice(Remove(s, i))} : i \in firsts}

\* filepath.Base
RECURSIVE StripSlashes(_)
StripSlashes(s) ==
    IF s # <<>> /\ s[Len(s)] = "/" THEN StripSlashes(SubSeq(s, 1, Len(s) - 1)) ELSE s
Base(path) ==
    IF path = <<>> THEN <<".">>
    ELSE LET s == StripSlashes(path)
             slashes == {i \in DOMAIN s : s[i] = "/"}
         IN IF s = <<>> THEN <<"/">>
            ELSE IF slashes = {} THEN s
            ELSE SubSeq(s, SetMax(slashes) + 1, Len(s))

\* The callback of main (main.go:50-62) on one call of group: what it prints.
frameLines(frames) ==
    [i \in DOMAIN frames |->
        [base |-> Base(frames[i].path), line |-> frames[i].line, fn |-> frames[i].fn]]
\* the callback with n <= minCount for n < minCount
callbackSkipsEqual(n, ps, minCount) ==
    IF n <= minCount THEN <<>>
    ELSE <<[kind |-> "group", count |-> n,
            minWait |-> minMax(ps).minWait, maxWait |-> minMax(ps).maxWait,
            statuses |-> sortedStatuses(ps), frames |-> frameLines(ps[1].frames)]>>
callback(n, ps, minCount) ==
    IF n < minCount THEN <<>>
    ELSE <<[kind |-> "group", count |-> n,
            minWait |-> minMax(ps).minWait, maxWait |-> minMax(ps).maxWait,
            statuses |-> sortedStatuses(ps), frames |-> frameLines(ps[1].frames)]>>
RECURSIVE report(_, _)
report(cbs, minCount) ==
    IF cbs = <<>> THEN <<>>
    ELSE callback(Head(cbs).n, Head(cbs).ps, minCount) \o report(Tail(cbs), minCount)
errorsLine(n) ==
    [kind |-> "errors", count |-> n, minWait |-> Zero, maxWait |-> Zero,
     statuses |-> <<>>, frames |-> <<>>]

\* addLines keeping the record parseStack returns beside an error
addLinesKeepsPartial(st, er, r) ==
    [stacks |-> Append(st, r.ps), errors |-> IF r.err = "nil" THEN er ELSE er + 1]

\* addLines (main.go:28-35): the stacks and the error count after it, r being
\* what parseStack(lines) returned
addLines(st, er, r) ==
    IF r.err = "nil"
    THEN [stacks |-> Append(st, r.ps), errors |-> er]
    ELSE [stacks |-> st, errors |-> er + 1]

(***************************************************************************)
(* Input: stdin as a sequence of chunks, a chunk being the raw lines of    *)
(* one dumped goroutine or one blank line.  Chunks that no blank line      *)
(* separates run together into one block.                                  *)
(***************************************************************************)
\* status a, frame f, waiting 3
BlockA3 ==
    <<<<"g","o","r","o","u","t","i","n","e"," ","1"," ","[","a",","," ","3"," ","m","i","n","u","t","e","s","]",":">>,
      <<"f","(","0","x","1",")">>,
      <<"\t","/","p","/","a",".","g","o",":","1","0"," ","+","0","x","5">>,
      <<"c","r","e","a","t","e","d"," ","b","y"," ","g"," ","i","n"," ","g","o","r","o","u","t","i","n","e"," ","1">>,
      <<"\t","/","p","/","c",".","g","o",":","2","0"," ","+","0","x","1","f">>>>

\* the same stack with another id, waiting time, arguments, location and creator
BlockA7 ==
    <<<<"g","o","r","o","u","t","i","n","e"," ","2"," ","[","a",","," ","7"," ","m","i","n","u","t","e","s","]",":">>,
      <<"f","(","0","x","2",","," ","0","x","3",")">>,
      <<"\t","/","q","/","b",".","g","o",":","1","1">>,
      <<"c","r","e","a","t","e","d"," ","b","y"," ","h"," ","i","n"," ","g","o","r","o","u","t","i","n","e"," ","2">>,
      <<"\t","/","q","/","d",".","g","o",":","2","1">>>>

\* status af, no frame, main.main() as creator, an id with a leading zero,
\* waiting 2^63 minutes
BlockAf ==
    <<<<"g","o","r","o","u","t","i","n","e"," ","0","1","0"," ","[","a","f",","," ","9","2","2","3","3","7","2","0","3","6","8","5","4","7","7","5","8","0","8"," ","m","i","n","u","t","e","s","]",":">>,
      <<"m","a","i","n",".","m","a","i","n","(",")">>,
      <<"\t","/","p","/","m",".","g","o",":","5"," ","+","0","x","2">>>>

\* the header has no closing bracket
BlockBadHeader ==
    <<<<"g","o","r","o","u","t","i","n","e"," ","5"," ","[","a",":">>,
      <<"f","(","0","x","1",")">>,
      <<"\t","/","p","/","a",".","g","o",":","1","0"," ","+","0","x","5">>,
      <<"c","r","e","a","t","e","d"," ","b","y"," ","g"," ","i","n"," ","g","o","r","o","u","t","i","n","e"," ","1">>,
      <<"\t","/","p","/","c",".","g","o",":","2","0"," ","+","0","x","1">>>>

BlankLine == <<<<>>>>
SpaceLine == <<<<" ", "\t">>>>
Chunks == {BlockA3, BlockA7, BlockAf, BlockBadHeader, BlankLine, SpaceLine}
FilterCounts == {0, 2}

\* The lines blocks are built from, line by line; one has the line number 08.
LineNo08 == <<"\t","/","p","/","c",".","g","o",":","0","8">>
ParseLines ==
    {BlockA3[1], BlockAf[1], BlockA3[2], BlockA3[3], LineNo08, BlockA3[4], BlockAf[2]}

(***************************************************************************)
(* main (main.go:19-67).                                                   *)
(***************************************************************************)
NoResult == [ps |-> ZeroStack, err |-> "nil", panic |-> FALSE]

Init ==
    /\ pc = "scan"
    /\ filterCount \in FilterCounts
    /\ printErrors \in BOOLEAN
    /\ lines = <<>>
    /\ stacks = <<>>
    /\ errors = 0
    /\ feed = <<>>
    /\ chunks = 0
    /\ calls = <<>>
    /\ out = <<>>
    /\ res = NoResult
    /\ blocks = 0
    /\ prevBlank = TRUE
    /\ shadow = [stacks |-> <<>>, errors |-> 0, calls |-> <<>>]
    /\ removed = 0

\* scanner.Scan() returns true and scanner.Text() is raw
Read(raw) ==
    \/ /\ feed # <<>>
       /\ raw = Head(feed)
       /\ feed' = Tail(feed)
       /\ chunks' = chunks
    \/ /\ feed = <<>>
       /\ chunks < MaxChunks
       /\ \E c \in Chunks : raw = Head(c) /\ feed' = Tail(c)
       /\ chunks' = chunks + 1

\* addLines() in main, followed by the move to pc next.  The shadow run reads
\* the same block, or, when the block fails to parse, may have it removed
\* from its input.
AddLines(next) ==
    \E r \in {parseStack(lines)} :
       IF r.panic
       THEN /\ pc' = "panic"
            /\ UNCHANGED <<lines, stacks, errors, shadow, removed>>
       ELSE /\ pc' = next
            /\ \E a \in {addLines(stacks, errors, r)} :
                  stacks' = a.stacks /\ errors' = a.errors
            /\ lines' = <<>>
            /\ \/ /\ \E b \in {addLines(shadow.stacks, shadow.errors, r)} :
                        shadow' = [shadow EXCEPT !.stacks = b.stacks, !.errors = b.errors]
                  /\ removed' = removed
               \/ /\ r.err # "nil" /\ lines # <<>>
                  /\ shadow' = shadow
                  /\ removed' = removed + 1

\* main.go:38-45, a line that is not blank
ScanText ==
    /\ pc = "scan"
    /\ \E raw \in UNION {Range(c) : c \in Chunks} :
          /\ Read(raw)
          /\ TrimSpace(raw) # <<>>
          /\ lines' = Append(lines, TrimSpace(raw))
    /\ blocks' = IF prevBlank THEN blocks + 1 ELSE blocks
    /\ prevBlank' = FALSE
    /\ UNCHANGED <<pc, filterCount, printErrors, stacks, errors, calls, out, res,
                   shadow, removed>>

\* main.go:38-43, a blank line
ScanBlank ==
    /\ pc = "scan"
    /\ \E raw \in UNION {Range(c) : c \in Chunks} :
          /\ Read(raw)
          /\ TrimSpace(raw) = <<>>
    /\ AddLines("scan")
    /\ prevBlank' = TRUE
    /\ UNCHANGED <<filterCount, printErrors, calls, out, res, blocks>>

\* main.go:38 and 46: scanner.Scan() returns false
ScanEOF ==
    /\ pc = "scan"
    /\ feed = <<>>
    /\ AddLines("sort")
    /\ UNCHANGED <<filterCount, printErrors, feed, chunks, calls, out, res, blocks,
                   prevBlank>>

\* main.go:48
Sort ==
    /\ pc = "sort"
    /\ stacks' \in SortSlice(stacks)
    /\ \E s \in SortSlice(shadow.stacks) : shadow' = [shadow EXCEPT !.stacks = s]
    /\ pc' = "group"
    /\ UNCHANGED <<filterCount, printErrors, lines, errors, feed, chunks, calls, out,
                   res, blocks, prevBlank, removed>>

\* main.go:50-62.  The callback reads ps[0], which panics on an empty ps.
Group ==
    /\ pc = "group"
    /\ \E cbs \in {group(stacks)} :
          /\ calls' = cbs
          /\ IF \E i \in DOMAIN cbs : cbs[i].n >= filterCount /\ cbs[i].ps = <<>>
             THEN pc' = "panic" /\ out' = out
             ELSE pc' = "errors" /\ out' = report(cbs, filterCount)
    /\ shadow' = [shadow EXCEPT !.calls = group(shadow.stacks)]
    /\ UNCHANGED <<filterCount, printErrors, lines, stacks, errors, feed, chunks,
                   res, blocks, prevBlank, removed>>

\* main.go:64-66
PrintErrors ==
    /\ pc = "errors"
    /\ out' = IF printErrors THEN Append(out, errorsLine(errors)) ELSE out
    /\ pc' = "done"
    /\ UNCHANGED <<filterCount, printErrors, lines, stacks, errors, feed, chunks,
                   calls, res, blocks, prevBlank, shadow, removed>>

Next == ScanText \/ ScanBlank \/ ScanEOF \/ Sort \/ Group \/ PrintErrors

Spec == Init /\ [][Next]_vars

(***************************************************************************)
(* parseStack on its own: a block is built line by line from ParseLines    *)
(* and parsed.                                                             *)
(***************************************************************************)
InitParse ==
    /\ pc = "build"
    /\ filterCount = 0
    /\ printErrors = FALSE
    /\ lines = <<>>
    /\ stacks = <<>>
    /\ errors = 0
    /\ feed = <<>>
    /\ chunks = 0
    /\ calls = <<>>
    /\ out = <<>>
    /\ res = NoResult
    /\ blocks = 0
    /\ prevBlank = TRUE
    /\ shadow = [stacks |-> <<>>, errors |-> 0, calls |-> <<>>]
    /\ removed = 0

PushLine ==
    /\ pc = "build"
    /\ Len(lines) < MaxBlockLen
    /\ \E raw \in ParseLines : lines' = Append(lines, TrimSpace(raw))
    /\ UNCHANGED <<pc, filterCount, printErrors, stacks, errors, feed, chunks, calls,
                   out, res, blocks, prevBlank, shadow, removed>>

Parse ==
    /\ pc = "build"
    /\ res' = parseStack(lines)
    /\ pc' = "parsed"
    /\ UNCHANGED <<filterCount, printErrors, lines, stacks, errors, feed, chunks, calls,
                   out, blocks, prevBlank, shadow, removed>>

NextParse == PushLine \/ Parse

SpecParse == InitParse /\ [][NextParse]_vars

(***************************************************************************)
(* Properties.                                                             *)
(***************************************************************************)
Reported == pc \in {"errors", "done"}
GroupEntries == SelectSeq(out, LAMBDA e : e.kind = "group")
ErrorEntries == SelectSeq(out, LAMBDA e : e.kind = "errors")
RECURSIVE SumCounts(_)
SumCounts(entries) ==
    IF entries = <<>> THEN 0 ELSE Head(entries).count + SumCounts(Tail(entries))
Fns(ps) == [i \in DOMAIN ps.frames |-> ps.frames[i].fn]
IntLeq(a, b) == ~IntLess(b, a)

\* C1: once the report is printed with minimum count 0, the counts of the
\* groups printed plus the error count add up to the number of blocks of the
\* input, a block being a maximal run of non-blank lines.
C1_CountsAddUpToBlocks ==
    (pc = "done" /\ filterCount = 0) => SumCounts(GroupEntries) + errors = blocks

\* C2: two accepted records have the same key exactly when they have the
\* same status and the same sequence of frame function names.
C2_KeyIsStatusAndFunctions ==
    \A i, j \in DOMAIN stacks :
        (stacks[i].key = stacks[j].key)
            <=> (stacks[i].status = stacks[j].status /\ Fns(stacks[i]) = Fns(stacks[j]))
\* two accepted records that differ in id, waiting time, arguments, path,
\* line, offset and creator share a key, and a third has another key
C2_Witness ==
    \E i, j, k \in DOMAIN stacks :
        /\ stacks[i].key = stacks[j].key
        /\ stacks[i].goroutine # stacks[j].goroutine
        /\ stacks[i].waiting # stacks[j].waiting
        /\ stacks[i].created # stacks[j].created
        /\ stacks[i].frames # <<>>
        /\ stacks[i].frames[1].args # stacks[j].frames[1].args
        /\ stacks[i].frames[1].path # stacks[j].frames[1].path
        /\ stacks[i].frames[1].line # stacks[j].frames[1].line
        /\ stacks[i].frames[1].offset # stacks[j].frames[1].offset
        /\ stacks[k].key # stacks[i].key

Summary(cbs) ==
    [i \in DOMAIN cbs |-> [key |-> cbs[i].ps[1].key, count |-> cbs[i].n,
                           waiting |-> minMax(cbs[i].ps),
                           statuses |-> sortedStatuses(cbs[i].ps)]]
\* C3: a block that fails to parse adds no record and adds one to the error
\* count, and the groups (key, count, waiting range, statuses) of the whole
\* input are those of the input with failing blocks removed from it.
C3_FailedBlockIsSkipped ==
    /\ pc = "scan" => stacks = shadow.stacks
    /\ Len(stacks) = Len(shadow.stacks)
    /\ errors = shadow.errors + removed
    /\ Reported => Summary(calls) = Summary(shadow.calls)
\* a failing block was removed from the shadow input and groups were reported
C3_Witness == pc = "done" /\ removed >= 1 /\ Len(calls) >= 2 /\ errors >= 1

\* C4: a block of at least 3 lines with an odd number of interior lines is
\* rejected by parseStack.
C4_OddInteriorIsRejected ==
    (pc = "parsed" /\ Len(lines) >= 3 /\ (Len(lines) - 3) % 2 = 1) => res.err # "nil"
\* header, one call line, created-by line, location line: only the pairing
\* is broken
C4_Witness ==
    /\ pc = "parsed" /\ Len(lines) = 4
    /\ goroutineMatcher(lines[1]) # Nil
    /\ functionMatcher(lines[2]) # Nil
    /\ createdMatcher(lines[3]) # Nil
    /\ locationMatcher(lines[4]) # Nil
    /\ res.err = "no match"

Decimal(s) == IF s = <<>> THEN [n |-> Zero, err |-> "nil"] ELSE Accumulate(s, 10, Zero)
Hex(s) == IF s = <<>> THEN [n |-> Zero, err |-> "nil"]
          ELSE Accumulate(SubSeq(s, 3, Len(s)), 16, Zero)
LocationFits(s) ==
    /\ locationMatcher(s) # Nil
    /\ Decimal(locationMatcher(s)[3]).err = "nil"
    /\ Hex(locationMatcher(s)[5]).err = "nil"
LocationStored(s, f) ==
    /\ f.line = Decimal(locationMatcher(s)[3]).n
    /\ f.offset = Hex(locationMatcher(s)[5]).n
InteriorPairs(ls) == {i \in 2..(Len(ls) - 2) : i % 2 = 0}
GrammarFits(ls) ==
    /\ Len(ls) >= 3 /\ Len(ls) % 2 = 1
    /\ goroutineMatcher(ls[1]) # Nil
    /\ Decimal(goroutineMatcher(ls[1])[2]).err = "nil"
    /\ Decimal(goroutineMatcher(ls[1])[5]).err = "nil"
    /\ (ls[Len(ls) - 1] = MAINMAIN \/ createdMatcher(ls[Len(ls) - 1]) # Nil)
    /\ LocationFits(ls[Len(ls)])
    /\ \A i \in InteriorPairs(ls) : functionMatcher(ls[i]) # Nil /\ LocationFits(ls[i + 1])
\* C5: in a block whose lines all match their grammar, every id, waiting
\* time and line number whose base-10 value fits in 64 bits is accepted and
\* stored as that value, and every offset as its base-16 value.
C5_FieldsInTheirBase ==
    (pc = "parsed" /\ GrammarFits(lines)) =>
        /\ res.err = "nil"
        /\ res.ps.goroutine = Decimal(goroutineMatcher(lines[1])[2]).n
        /\ res.ps.waiting = Decimal(goroutineMatcher(lines[1])[5]).n
        /\ LocationStored(lines[Len(lines)], res.ps.created)
        /\ \A i \in InteriorPairs(lines) : LocationStored(lines[i + 1], res.ps.frames[i \div 2])

KeptCalls == SelectSeq(calls, LAMBDA c : c.n >= filterCount)
\* C6: the report holds one entry for each group whose count is at least
\* filterCount, in the order of the groups, and nothing for the others; the
\* errors line is printed last exactly when printErrors is set.
C6_ReportIsFilteredGroups ==
    /\ Reported =>
          /\ Len(GroupEntries) = Len(KeptCalls)
          /\ \A i \in DOMAIN KeptCalls :
                /\ GroupEntries[i].count = KeptCalls[i].n
                /\ GroupEntries[i].statuses = sortedStatuses(KeptCalls[i].ps)
                /\ GroupEntries[i].frames = frameLines(KeptCalls[i].ps[1].frames)
          /\ filterCount = 0 => Len(GroupEntries) = Len(calls)
          /\ (\A i \in DOMAIN calls : calls[i].n < filterCount) => GroupEntries = <<>>
    /\ pc = "done" =>
          /\ ErrorEntries = IF printErrors THEN <<errorsLine(errors)>> ELSE <<>>
          /\ out = GroupEntries \o ErrorEntries
\* a group of two is printed, a group of one is not, the errors line is
C6_Witness ==
    /\ pc = "done" /\ filterCount = 2 /\ printErrors
    /\ Len(calls) = 2 /\ Len(GroupEntries) = 1 /\ Len(out) = 2
    /\ GroupEntries[1].count = 2

\* C7: after sorting, group calls back once for each key among the records,
\* with the number of records having that key, in strictly ascending key
\* order.
C7_OneGroupPerKey ==
    Reported =>
        /\ \A i \in DOMAIN calls :
              calls[i].n = Cardinality({k \in DOMAIN stacks :
                                          stacks[k].key = calls[i].ps[1].key})
        /\ \A k \in DOMAIN stacks : \E i \in DOMAIN calls : calls[i].ps[1].key = stacks[k].key
        /\ \A i \in DOMAIN calls :
              i > 1 => StrLess(calls[i - 1].ps[1].key, calls[i].ps[1].key)
\* two groups, the first of two records
C7_Witness == pc = "done" /\ Len(calls) = 2 /\ calls[1].n = 2 /\ calls[2].n = 1

\* C8: the waiting range printed for a group is the smallest and the largest
\* waiting time among its records.
C8_WaitingRange ==
    Reported =>
        \A i \in DOMAIN KeptCalls :
            /\ \E k \in DOMAIN KeptCalls[i].ps :
                  KeptCalls[i].ps[k].waiting = GroupEntries[i].minWait
            /\ \E k \in DOMAIN KeptCalls[i].ps :
                  KeptCalls[i].ps[k].waiting = GroupEntries[i].maxWait
            /\ \A k \in DOMAIN KeptCalls[i].ps :
                  /\ IntLeq(GroupEntries[i].minWait, KeptCalls[i].ps[k].waiting)
                  /\ IntLeq(KeptCalls[i].ps[k].waiting, GroupEntries[i].maxWait)
            /\ IntLeq(GroupEntries[i].minWait, GroupEntries[i].maxWait)
\* the records waiting 3 and 7 minutes form one group with the range 3-7,
\* the one waiting 7 minutes sorted first
C8_Witness ==
    /\ pc = "done" /\ GroupEntries # <<>>
    /\ GroupEntries[1].count = 2
    /\ GroupEntries[1].minWait = U64(3) /\ GroupEntries[1].maxWait = U64(7)
    /\ calls[1].ps[1].waiting = U64(7)

\* C9: an accepted record has a non-negative goroutine id, waiting time and
\* line numbers.
C9_FieldsNonNegative ==
    (pc = "parsed" /\ res.err = "nil") =>
        /\ ~IsNegative(res.ps.goroutine)
        /\ ~IsNegative(res.ps.waiting)
        /\ ~IsNegative(res.ps.created.line)
        /\ \A i \in DOMAIN res.ps.frames : ~IsNegative(res.ps.frames[i].line)

\* C10: no index is out of range in parseStack, and group calls back only
\* with a non-empty slice of n records of one key; without records it does
\* not call back.
C10_NoIndexOutOfRange ==
    /\ pc # "panic"
    /\ \A i \in DOMAIN calls :
          /\ calls[i].ps # <<>>
          /\ Len(calls[i].ps) = calls[i].n
          /\ \A k \in DOMAIN calls[i].ps : calls[i].ps[k].key = calls[i].ps[1].key
    /\ (Reported /\ stacks = <<>>) => calls = <<>>
\* blocks failed to match, one record was grouped
C10_Witness == pc = "done" /\ removed >= 1 /\ Len(calls) = 1 /\ calls[1].n = 1

====
